---- MODULE Spec2Model ----
(***************************************************************************)
(* sales_analysis.py: a linear batch script.  It builds a raw sales frame, *)
(* writes it to sales.csv, reads the file back, fills missing quantities   *)
(* with the per-product median, casts the column types, derives revenue,   *)
(* aggregates (total, per month, top 5 products) and draws the dashboard.  *)
(*                                                                         *)
(* Numeric cells (quantity, unit_price, revenue) are held in HALVES: the   *)
(* cell value v is stored as 2*v, so the x.5 values a median of integers   *)
(* can take stay integers of the model.  NaN is the missing value.         *)
(***************************************************************************)
EXTENDS Integers, Sequences, FiniteSets, TLC

VARIABLES
    pc,               \* the last statement group of the script that completed
    df_raw,           \* the generated frame (lines 37-46)
    files,            \* the files beside the script, by name
    df,               \* the frame loaded at line 56 and worked on afterwards
    total_revenue,    \* line 83
    monthly_revenue,  \* lines 88-93
    top_products,     \* lines 98-104
    error             \* the uncaught exception that ended the run, if any

vars == <<pc, df_raw, files, df, total_revenue, monthly_revenue,
          top_products, error>>

\* np.nan, the missing value; every number a cell can hold is >= 0
NaN == -1

\* ------------------------------------------------------------------ bounds
MaxRows == 4
TopRows == 6

\* ------------------------------------------------------- program constants
products ==
    << "Laptop", "Wireless Mouse", "USB-C Hub", "Mechanical Keyboard",
       "Monitor", "Webcam", "Headphones", "Desk Lamp", "SSD Drive",
       "Phone Stand" >>

prices ==
    ( "Laptop" :> 999 @@ "Wireless Mouse" :> 29 @@ "USB-C Hub" :> 45 @@
      "Mechanical Keyboard" :> 89 @@ "Monitor" :> 349 @@ "Webcam" :> 79 @@
      "Headphones" :> 149 @@ "Desk Lamp" :> 35 @@ "SSD Drive" :> 119 @@
      "Phone Stand" :> 19 )

TopN == 5

\* ------------------------------------------------------------ halves
Num(k) == 2 * k
IsWhole(x) == x % 2 = 0
Whole(x) == x \div 2
Times(x, y) == (x * y) \div 2

\* ------------------------------------------------------------ timestamps
Ts(y, mo, d, h, mi, s, ns) ==
    [year |-> y, month |-> mo, day |-> d, hour |-> h, minute |-> mi,
     second |-> s, nanosecond |-> ns]

\* Values pd.date_range("2024-01-01", "2024-12-31", periods=500) holds at the
\* positions 0, 1, 42, 43, 44, 86, 498 and 499, in order.
DateSeq ==
    << Ts(2024, 1, 1, 0, 0, 0, 0),
       Ts(2024, 1, 1, 17, 33, 18, 396793587),
       Ts(2024, 1, 31, 17, 18, 52, 665330661),
       Ts(2024, 2, 1, 10, 52, 11, 62124248),
       Ts(2024, 2, 2, 4, 25, 29, 458917835),
       Ts(2024, 3, 3, 21, 44, 22, 124248497),
       Ts(2024, 12, 30, 6, 26, 41, 603206412),
       Ts(2024, 12, 31, 0, 0, 0, 0) >>

\* --------------------------------------------------------------- frames
RawColumns == << "date", "product", "quantity", "unit_price" >>

Range(s) == { s[i] : i \in DOMAIN s }

Column(frame, c) == [ i \in DOMAIN frame.rows |-> frame.rows[i][c] ]

HasNaN(frame, c) == \E i \in DOMAIN frame.rows : frame.rows[i][c] = NaN

\* df[c] = values: replaces the column c, or appends it as the last column
SetColumn(frame, c, dtype, values) ==
    [ columns |-> IF c \in Range(frame.columns) THEN frame.columns
                  ELSE Append(frame.columns, c),
      dtypes  |-> [ k \in DOMAIN frame.dtypes \cup {c} |->
                      IF k = c THEN dtype ELSE frame.dtypes[k] ],
      rows    |-> [ i \in DOMAIN frame.rows |->
                      [ k \in DOMAIN frame.rows[i] \cup {c} |->
                          IF k = c THEN values[i] ELSE frame.rows[i][k] ] ] ]

NoFrame == [ columns |-> << >>, dtypes |-> << >>, rows |-> << >> ]

\* Lines 37-46.  quantity[i] is the randint draw, or NaN where missing_idx
\* holds i; the int64 column turns float64 when a NaN is set into it, and an
\* empty missing_idx sets nothing.
RawFrame(dates, chosen_products, quantities) ==
    [ columns |-> RawColumns,
      dtypes  |-> [ date |-> "datetime64[ns]", product |-> "object",
                    quantity |-> IF \E i \in DOMAIN quantities : quantities[i] = NaN
                                 THEN "float64" ELSE "int64",
                    unit_price |-> "int64" ],
      rows    |-> [ i \in DOMAIN dates |->
                      [ date |-> dates[i],
                        product |-> chosen_products[i],
                        quantity |-> IF quantities[i] = NaN THEN NaN
                                     ELSE Num(quantities[i]),
                        unit_price |-> Num(prices[chosen_products[i]]) ] ] ]

\* ---------------------------------------------------------------- text
\* A csv field is a sequence of characters; a product name is written
\* verbatim (no catalogue name holds a delimiter, a quote or a line break,
\* so to_csv never quotes) and is held as one token.
DigitChars == << "0", "1", "2", "3", "4", "5", "6", "7", "8", "9" >>

IsDigit(c) == \E d \in 1..10 : DigitChars[d] = c

DigitValue(c) == (CHOOSE d \in 1..10 : DigitChars[d] = c) - 1

RECURSIVE Str(_)
\* str(n) of an integer n >= 0
Str(n) == IF n < 10 THEN << DigitChars[n + 1] >>
          ELSE Str(n \div 10) \o << DigitChars[(n % 10) + 1] >>

RECURSIVE Pad(_, _)
\* f"{n:0{w}d}" for 0 <= n < 10^w
Pad(n, w) == IF w = 0 THEN << >>
             ELSE Pad(n \div 10, w - 1) \o << DigitChars[(n % 10) + 1] >>

RECURSIVE ParseInt(_)
ParseInt(t) == IF t = << >> THEN 0
               ELSE 10 * ParseInt(SubSeq(t, 1, Len(t) - 1)) + DigitValue(t[Len(t)])

RECURSIVE Pow10(_)
Pow10(k) == IF k = 0 THEN 1 ELSE 10 * Pow10(k - 1)

\* ------------------------------------------------- DataFrame.to_csv (line 50)
\* repr of a float64 holding a whole or a half: "4.0", "2.5"
FormatFloat(x) == Str(Whole(x)) \o << "." >> \o (IF IsWhole(x) THEN << "0" >> ELSE << "5" >>)

\* na_rep is the empty string
FormatNumber(x, dtype) ==
    IF x = NaN THEN << >>
    ELSE IF dtype = "int64" THEN Str(Whole(x))
    ELSE FormatFloat(x)

\* A datetime column is written as dates alone when every value is midnight.
IsDatesOnly(dates) ==
    \A i \in DOMAIN dates :
        /\ dates[i].hour = 0 /\ dates[i].minute = 0
        /\ dates[i].second = 0 /\ dates[i].nanosecond = 0

\* Otherwise the fraction shown is the coarsest of none, ms, us, ns that
\* holds every value of the column.
FractionDigits(dates) ==
    IF \E i \in DOMAIN dates : dates[i].nanosecond % 1000 # 0 THEN 9
    ELSE IF \E i \in DOMAIN dates : dates[i].nanosecond % 1000000 # 0 THEN 6
    ELSE IF \E i \in DOMAIN dates : dates[i].nanosecond # 0 THEN 3
    ELSE 0

\* mutant: every timestamp written as its date alone (date_format="%Y-%m-%d")
FormatDateOnly(t, datesOnly, digits) ==
    Str(t.year) \o << "-" >> \o Pad(t.month, 2) \o << "-" >> \o Pad(t.day, 2)

FormatTimestamp(t, datesOnly, digits) ==
    LET day == Str(t.year) \o << "-" >> \o Pad(t.month, 2) \o << "-" >> \o Pad(t.day, 2)
        time == << " " >> \o Pad(t.hour, 2) \o << ":" >> \o Pad(t.minute, 2)
                   \o << ":" >> \o Pad(t.second, 2)
        frac == IF digits = 0 THEN << >>
                ELSE << "." >> \o Pad(t.nanosecond \div Pow10(9 - digits), digits)
    IN  IF datesOnly THEN day ELSE day \o time \o frac

FormatCell(frame, c, i) ==
    LET v == frame.rows[i][c]
        dt == frame.dtypes[c]
    IN  IF dt = "datetime64[ns]"
        THEN FormatTimestamp(v, IsDatesOnly(Column(frame, c)),
                             FractionDigits(Column(frame, c)))
        ELSE IF dt = "object" THEN << v >>
        ELSE FormatNumber(v, dt)

\* index=False: a header line of the column names, then one line per row
ToCsv(frame) ==
    [ header |-> frame.columns,
      lines  |-> [ i \in DOMAIN frame.rows |->
                     [ j \in DOMAIN frame.columns |->
                         FormatCell(frame, frame.columns[j], i) ] ] ]

\* ------------------------------------------------- pd.read_csv (line 56)
IsIntLiteral(t) == t # << >> /\ \A k \in DOMAIN t : IsDigit(t[k])

IsFloatLiteral(t) ==
    \E p \in DOMAIN t :
        /\ t[p] = "."
        /\ p > 1 /\ p < Len(t)
        /\ \A k \in DOMAIN t : k # p => IsDigit(t[k])

\* A column is numeric when every field is empty or a number; it is int64
\* when every field is an integer literal and float64 otherwise.
IsNumericColumn(fields) ==
    \A i \in DOMAIN fields :
        fields[i] = << >> \/ IsIntLiteral(fields[i]) \/ IsFloatLiteral(fields[i])

InferDtype(fields) ==
    IF \A i \in DOMAIN fields : IsIntLiteral(fields[i]) THEN "int64" ELSE "float64"

\* The value of a numeric field, in halves; the empty field is NaN.  The
\* fractions to_csv writes here are .0 and .5.
ParseNumber(t) ==
    IF t = << >> THEN NaN
    ELSE IF IsIntLiteral(t) THEN Num(ParseInt(t))
    ELSE LET p == CHOOSE k \in DOMAIN t : t[k] = "."
             frac == SubSeq(t, p + 1, Len(t))
         IN  Num(ParseInt(SubSeq(t, 1, p - 1)))
               + (IF frac[1] = "5" THEN 1 ELSE 0)

\* parse_dates=["date"]: ISO 8601, a date alone is midnight
ParseTimestamp(t) ==
    LET frac == SubSeq(t, 21, Len(t))
    IN  Ts(ParseInt(SubSeq(t, 1, 4)), ParseInt(SubSeq(t, 6, 7)),
           ParseInt(SubSeq(t, 9, 10)),
           IF Len(t) > 10 THEN ParseInt(SubSeq(t, 12, 13)) ELSE 0,
           IF Len(t) > 10 THEN ParseInt(SubSeq(t, 15, 16)) ELSE 0,
           IF Len(t) > 10 THEN ParseInt(SubSeq(t, 18, 19)) ELSE 0,
           IF Len(t) > 20 THEN ParseInt(frac) * Pow10(9 - Len(frac)) ELSE 0)

Fields(file, j) == [ i \in DOMAIN file.lines |-> file.lines[i][j] ]

ColumnIndex(file, c) == CHOOSE j \in DOMAIN file.header : file.header[j] = c

ReadDtype(file, c) ==
    LET fields == Fields(file, ColumnIndex(file, c))
    IN  IF c = "date" THEN "datetime64[ns]"
        ELSE IF IsNumericColumn(fields) THEN InferDtype(fields)
        ELSE "object"

ReadCell(file, c, i) ==
    LET t == file.lines[i][ColumnIndex(file, c)]
        dt == ReadDtype(file, c)
    IN  IF dt = "datetime64[ns]" THEN ParseTimestamp(t)
        ELSE IF dt = "object" THEN t[1]
        ELSE ParseNumber(t)

ReadCsv(file) ==
    [ columns |-> file.header,
      dtypes  |-> [ c \in Range(file.header) |-> ReadDtype(file, c) ],
      rows    |-> [ i \in DOMAIN file.lines |->
                      [ c \in Range(file.header) |-> ReadCell(file, c, i) ] ] ]

\* ------------------------------------------------- cleaning (lines 66-77)
\* The quantities of the rows of one product that are not NaN, in row order
GroupValues(frame, p) ==
    LET n == Len(frame.rows)
        F[i \in 0..n] ==
            IF i = 0 THEN << >>
            ELSE IF frame.rows[i].product = p /\ frame.rows[i].quantity # NaN
                 THEN Append(F[i - 1], frame.rows[i].quantity)
                 ELSE F[i - 1]
    IN  F[n]

\* Series.median(): NaN is skipped; the middle value, or the mean of the two
\* middle values; NaN when no value is left
Median(vals) ==
    IF vals = << >> THEN NaN
    ELSE LET s == SortSeq(vals, LAMBDA a, b : a < b)
             m == Len(s)
         IN  IF m % 2 = 1 THEN s[(m + 1) \div 2]
             ELSE (s[m \div 2] + s[(m \div 2) + 1]) \div 2

\* mutant: the median taken over the whole column, not per product
FillValueAllRows(frame, i) ==
    IF frame.rows[i].quantity = NaN
    THEN Median(SelectSeq(Column(frame, "quantity"), LAMBDA v : v # NaN))
    ELSE frame.rows[i].quantity

\* col.fillna(col.median()) on the rows of one product
FillValue(frame, i) ==
    IF frame.rows[i].quantity = NaN
    THEN Median(GroupValues(frame, frame.rows[i].product))
    ELSE frame.rows[i].quantity

\* mutant: the filled values laid out group after group (apply in place of
\* transform), not at the rows they came from
FillMissingGrouped(frame) ==
    LET n == Len(frame.rows)
        first(i) == \A j \in 1..(i - 1) : frame.rows[j].product # frame.rows[i].product
        group(i) == SelectSeq([ j \in 1..n |-> j ],
                              LAMBDA j : frame.rows[j].product = frame.rows[i].product)
        F[i \in 0..n] ==
            IF i = 0 THEN << >>
            ELSE IF first(i) THEN F[i - 1] \o group(i) ELSE F[i - 1]
    IN  SetColumn(frame, "quantity", frame.dtypes.quantity,
                  [ i \in DOMAIN frame.rows |-> FillValue(frame, F[n][i]) ])

\* Lines 66-68: groupby("product")["quantity"].transform(...) gives the
\* filled values at the rows they came from
FillMissing(frame) ==
    SetColumn(frame, "quantity", frame.dtypes.quantity,
              [ i \in DOMAIN frame.rows |-> FillValue(frame, i) ])

\* mutant: the cast left out, the value kept as it is
AsIntKept(x) == x

\* astype(int) of a float: the fraction is dropped
AsInt(x) == Num(Whole(x))

\* Line 73 raises on a NaN (IntCastingNaNError, a ValueError)
CanCastToInt(frame) == ~HasNaN(frame, "quantity")

\* Lines 73-74
EnsureTypes(frame) ==
    SetColumn(
        SetColumn(frame, "quantity", "int64",
                  [ i \in DOMAIN frame.rows |-> AsInt(frame.rows[i].quantity) ]),
        "unit_price", "float64",
        [ i \in DOMAIN frame.rows |-> frame.rows[i].unit_price ])

\* Line 77
AddRevenue(frame) ==
    SetColumn(frame, "revenue", "float64",
              [ i \in DOMAIN frame.rows |->
                  Times(frame.rows[i].quantity, frame.rows[i].unit_price) ])

\* Lines 66-77 on a frame line 73 accepts
CleanStage(frame) == AddRevenue(EnsureTypes(FillMissing(frame)))

\* ------------------------------------------------- analysis (lines 83-104)
RECURSIVE SumOver(_, _)
\* the sum of f over the set S
SumOver(f, S) ==
    IF S = {} THEN 0
    ELSE LET x == CHOOSE y \in S : TRUE
         IN  f[x] + SumOver(f, S \ {x})

\* Line 83
TotalRevenue(frame) == SumOver(Column(frame, "revenue"), DOMAIN frame.rows)

\* dt.to_period("M")
ToPeriod(t) == [ year |-> t.year, month |-> t.month ]

PeriodBefore(a, b) == a.year < b.year \/ (a.year = b.year /\ a.month < b.month)

\* mutant: the month added and the date column cut to its day
AddMonthCutDate(frame) ==
    SetColumn(
        SetColumn(frame, "month", "period[M]",
                  [ i \in DOMAIN frame.rows |-> ToPeriod(frame.rows[i].date) ]),
        "date", "datetime64[ns]",
        [ i \in DOMAIN frame.rows |->
            [ frame.rows[i].date EXCEPT !.hour = 0, !.minute = 0, !.second = 0,
                                        !.nanosecond = 0 ] ])

\* Line 87
AddMonth(frame) ==
    SetColumn(frame, "month", "period[M]",
              [ i \in DOMAIN frame.rows |-> ToPeriod(frame.rows[i].date) ])

MonthAbbr ==
    << "Jan", "Feb", "Mar", "Apr", "May", "Jun",
       "Jul", "Aug", "Sep", "Oct", "Nov", "Dec" >>

RECURSIVE SortedPeriods(_)
\* the group keys of groupby("month"), in ascending order
SortedPeriods(S) ==
    IF S = {} THEN << >>
    ELSE LET first == CHOOSE a \in S : \A b \in S \ {a} : PeriodBefore(a, b)
         IN  << first >> \o SortedPeriods(S \ {first})

\* mutant: .max() in place of .sum()
GroupMax(frame, key, k) ==
    LET vals == { frame.rows[i].revenue :
                    i \in { j \in DOMAIN frame.rows : frame.rows[j][key] = k } }
    IN  CHOOSE v \in vals : \A w \in vals : w <= v

GroupSum(frame, key, k) ==
    SumOver(Column(frame, "revenue"),
            { i \in DOMAIN frame.rows : frame.rows[i][key] = k })

\* Lines 88-93: one row per month, with the sum of its revenue and its "%b"
MonthlyRevenue(frame) ==
    LET keys == SortedPeriods(Range(Column(frame, "month")))
    IN  [ j \in DOMAIN keys |->
            [ month |-> keys[j],
              revenue |-> GroupSum(frame, "month", keys[j]),
              month_label |-> MonthAbbr[keys[j].month] ] ]

\* Lines 99-100: the revenue summed per product
ProductSums(frame) ==
    { [ product |-> p, revenue |-> GroupSum(frame, "product", p) ] :
        p \in Range(Column(frame, "product")) }

RECURSIVE Ascending(_)
\* mutant: ascending=False left out
Ascending(S) ==
    IF S = {} THEN { << >> }
    ELSE UNION { { << g >> \o t : t \in Ascending(S \ {g}) } :
                 g \in { h \in S : \A k \in S : h.revenue <= k.revenue } }

RECURSIVE Descending(_)
\* Line 101: sort_values(ascending=False) with the default quicksort, which
\* is not stable: every order of the groups with non-increasing revenue
Descending(S) ==
    IF S = {} THEN { << >> }
    ELSE UNION { { << g >> \o t : t \in Descending(S \ {g}) } :
                 g \in { h \in S : \A k \in S : k.revenue <= h.revenue } }

\* Line 102: head(n)
HeadRows(s, n) == SubSeq(s, 1, IF Len(s) < n THEN Len(s) ELSE n)

\* Lines 98-104
TopProducts(frame) == { HeadRows(s, TopN) : s \in Descending(ProductSums(frame)) }

\* ------------------------------------------------- the generated inputs
\* Lines 32-46 with the random draws left open and fewer rows than n = 500.
\* The dates are increasing values of the date range (a stretch of DateSeq),
\* the products are drawn from the catalogue, a quantity is a randint(1, 6)
\* draw or NaN where missing_idx fell.
Window(k, n) == [ i \in 1..n |-> DateSeq[k + i] ]

StartOffsets == { 0, 2, 3 }

MainCatalogue == { products[1], products[8] }

QuantityDraws == { 1, 4 }

\* Record sets whose rows come in catalogue order and use the first products
\* of the catalogue, none skipped: the inputs that reach more groups than
\* the ranking keeps.
FirstProducts(idx) ==
    /\ idx[1] = 1
    /\ \A i \in DOMAIN idx : i > 1 => idx[i] - idx[i - 1] \in { 0, 1 }

\* ------------------------------------------------------------ the files
csv_path == "sales.csv"

\* mutant: the chart saved under the name of the dataset file
ChartPathIsCsvPath == "sales.csv"

chart_path == "sales_dashboard.png"

NoFile == [ exists |-> FALSE, format |-> "none", header |-> << >>, lines |-> << >> ]

CsvContent(frame) == [ exists |-> TRUE, format |-> "csv" ] @@ ToCsv(frame)

\* savefig(..., dpi=150, bbox_inches="tight"): a PNG image
PngContent == [ exists |-> TRUE, format |-> "png", header |-> << >>, lines |-> << >> ]

WriteFile(path, content) == [ files EXCEPT ![path] = content ]

csv_file == files["sales.csv"]

chart_file == files["sales_dashboard.png"]

NoError == [ type |-> "none", line |-> 0 ]

Start(raw) ==
    /\ pc = "generated"
    /\ df_raw = raw
    /\ files = [ f \in { "sales.csv", "sales_dashboard.png" } |-> NoFile ]
    /\ df = NoFrame
    /\ total_revenue = 0        \* not bound before line 83
    /\ monthly_revenue = << >>
    /\ top_products = << >>
    /\ error = NoError

Init ==
    \E n \in 1..MaxRows :
        \E k \in StartOffsets,
           cp \in [ 1..n -> MainCatalogue ],
           q \in [ 1..n -> QuantityDraws \cup {NaN} ] :
            Start(RawFrame(Window(k, n), cp, q))

InitTop ==
    \E n \in 1..TopRows :
        \E idx \in { f \in [ 1..n -> 1..n ] : FirstProducts(f) },
           q \in [ 1..n -> QuantityDraws ] :
            Start(RawFrame(Window(0, n), [ i \in 1..n |-> products[idx[i]] ], q))

\* ------------------------------------------------------------- the script
\* An uncaught exception ends the run
Raise(type, line) ==
    /\ pc' = "failed"
    /\ error' = [ type |-> type, line |-> line ]

\* Lines 49-51; to_csv raises when the path cannot be opened for writing
SaveCsv ==
    /\ pc = "generated"
    /\ \E ok \in BOOLEAN :
        IF ok
        THEN /\ files' = WriteFile(csv_path, CsvContent(df_raw))
             /\ pc' = "saved"
             /\ UNCHANGED error
        ELSE /\ Raise("OSError", 50)
             /\ UNCHANGED files
    /\ UNCHANGED << df_raw, df, total_revenue, monthly_revenue, top_products >>

\* Lines 56-58
LoadCsv ==
    /\ pc = "saved"
    /\ df' = ReadCsv(files[csv_path])
    /\ pc' = "loaded"
    /\ UNCHANGED << df_raw, files, total_revenue, monthly_revenue,
                    top_products, error >>

\* Lines 63-70
FillQuantity ==
    /\ pc = "loaded"
    /\ df' = FillMissing(df)
    /\ pc' = "filled"
    /\ UNCHANGED << df_raw, files, total_revenue, monthly_revenue,
                    top_products, error >>

\* Lines 73-74
CastTypes ==
    /\ pc = "filled"
    /\ IF CanCastToInt(df)
       THEN /\ df' = EnsureTypes(df)
            /\ pc' = "typed"
            /\ UNCHANGED error
       ELSE /\ Raise("IntCastingNaNError", 73)
            /\ UNCHANGED df
    /\ UNCHANGED << df_raw, files, total_revenue, monthly_revenue,
                    top_products >>

\* Line 77
DeriveRevenue ==
    /\ pc = "typed"
    /\ df' = AddRevenue(df)
    /\ pc' = "cleaned"
    /\ UNCHANGED << df_raw, files, total_revenue, monthly_revenue,
                    top_products, error >>

\* Lines 83-84
SumRevenue ==
    /\ pc = "cleaned"
    /\ total_revenue' = TotalRevenue(df)
    /\ pc' = "totalled"
    /\ UNCHANGED << df_raw, files, df, monthly_revenue, top_products, error >>

\* Lines 87-95
GroupByMonth ==
    /\ pc = "totalled"
    /\ df' = AddMonth(df)
    /\ monthly_revenue' = MonthlyRevenue(df')
    /\ pc' = "monthly"
    /\ UNCHANGED << df_raw, files, total_revenue, top_products, error >>

\* Lines 98-106
RankProducts ==
    /\ pc = "monthly"
    /\ top_products' \in TopProducts(df)
    /\ pc' = "ranked"
    /\ UNCHANGED << df_raw, files, df, total_revenue, monthly_revenue, error >>

\* Lines 111-168; savefig raises when the path cannot be written
SaveChart ==
    /\ pc = "ranked"
    /\ \E ok \in BOOLEAN :
        IF ok
        THEN /\ files' = WriteFile(chart_path, PngContent)
             /\ pc' = "chart_saved"
             /\ UNCHANGED error
        ELSE /\ Raise("OSError", 167)
             /\ UNCHANGED files
    /\ UNCHANGED << df_raw, df, total_revenue, monthly_revenue, top_products >>

\* Lines 169-171
ShowChart ==
    /\ pc = "chart_saved"
    /\ pc' = "done"
    /\ UNCHANGED << df_raw, files, df, total_revenue, monthly_revenue,
                    top_products, error >>

Next ==
    \/ SaveCsv
    \/ LoadCsv
    \/ FillQuantity
    \/ CastTypes
    \/ DeriveRevenue
    \/ SumRevenue
    \/ GroupByMonth
    \/ RankProducts
    \/ SaveChart
    \/ ShowChart

Spec == Init /\ [][Next]_vars

SpecTop == InitTop /\ [][Next]_vars

\* =================================================================== claims
\* What the claims speak of, stated from the generated frame df_raw and not
\* through the operators of the cleaner.
Rows == DOMAIN df_raw.rows

RawQuantity(i) == df_raw.rows[i].quantity

ProductOf(i) == df_raw.rows[i].product

\* the rows of i's product group whose quantity is defined
Defined(i) == { j \in Rows : ProductOf(j) = ProductOf(i) /\ RawQuantity(j) # NaN }

EveryGroupHasValue == \A i \in Rows : Defined(i) # {}

SomeGroupHasNoValue == \E i \in Rows : Defined(i) = {}

\* the k-th smallest defined quantity of the group J
Kth(J, k) ==
    CHOOSE v \in { RawQuantity(j) : j \in J } :
        /\ Cardinality({ j \in J : RawQuantity(j) < v }) < k
        /\ k <= Cardinality({ j \in J : RawQuantity(j) <= v })

\* the statistical median of the defined quantities of i's group (in halves)
GroupMedian(i) ==
    LET J == Defined(i)
        n == Cardinality(J)
    IN  (Kth(J, (n + 1) \div 2) + Kth(J, (n \div 2) + 1)) \div 2

MedianIsFractional(i) == Defined(i) # {} /\ GroupMedian(i) % 2 = 1

Cleaned == "revenue" \in Range(df.columns)

RECURSIVE SumTo(_, _)
SumTo(f, n) == IF n = 0 THEN 0 ELSE f[n] + SumTo(f, n - 1)

\* the revenue summed over the rows I of df
RevenueOver(I) ==
    SumTo([ i \in DOMAIN df.rows |-> IF i \in I THEN df.rows[i].revenue ELSE 0 ],
          Len(df.rows))

\* C1: once the cleaning stage has completed, no record has an absent
\* quantity, every quantity is a non-negative integer, and every revenue is
\* exactly quantity times unit_price.
C1_CleanedRecords ==
    Cleaned =>
        \A i \in DOMAIN df.rows :
            LET r == df.rows[i]
            IN  /\ r.quantity # NaN
                /\ r.quantity >= 0
                /\ r.quantity % 2 = 0
                /\ r.revenue # NaN
                /\ r.revenue >= 0
                /\ 2 * r.revenue = r.quantity * r.unit_price

C1_Witness ==
    /\ pc = "cleaned"
    /\ \E i \in Rows : RawQuantity(i) = NaN /\ MedianIsFractional(i)

\* C2 as stated: when some product group has no defined quantity the run
\* ends in a DataError, with the absent quantities left absent and no revenue
\* derived.
C2_DataError ==
    (SomeGroupHasNoValue /\ pc \in { "failed", "done" } /\ error.line # 50) =>
        /\ pc = "failed"
        /\ error.type = "DataError"
        /\ \A i \in Rows : Defined(i) = {} => df.rows[i].quantity = NaN
        /\ ~Cleaned

\* C2, what the code does there: the fill step completes and leaves the
\* quantities of such a group absent; the run then ends at the integer cast
\* of line 73 with pandas' IntCastingNaNError; nothing is filled in by
\* default, no revenue is derived and no aggregate is computed.
C2_CastError ==
    (SomeGroupHasNoValue /\ pc \notin { "generated", "saved", "loaded" }
       /\ error.line # 50) =>
        /\ pc \in { "filled", "failed" }
        /\ pc = "failed" => error = [ type |-> "IntCastingNaNError", line |-> 73 ]
        /\ \A i \in Rows : Defined(i) = {} => df.rows[i].quantity = NaN
        /\ ~Cleaned
        /\ total_revenue = 0 /\ monthly_revenue = << >> /\ top_products = << >>

C2_Witness ==
    /\ pc = "failed"
    /\ error.type = "IntCastingNaNError"
    /\ SomeGroupHasNoValue
    /\ \E i \in Rows : Defined(i) # {}

\* C3 as stated: an absent quantity of a group whose median is not an integer
\* ends up as the median rounded half up (2.5 becomes 3).
C3_RoundHalfUp ==
    Cleaned =>
        \A i \in Rows :
            (RawQuantity(i) = NaN /\ MedianIsFractional(i)) =>
                df.rows[i].quantity = GroupMedian(i) + 1

\* C4: when every product group has a defined quantity, the fill step sets
\* each absent quantity to the median of the defined quantities of the
\* record's own group and leaves the defined ones as they were; a defined
\* quantity, and one filled from a group with a single defined value, goes
\* through the whole cleaner unchanged, its revenue is quantity times price
\* and the total is the sum of the revenues.
C4_FillWithGroupMedian ==
    /\ (pc = "filled" /\ EveryGroupHasValue) =>
          \A i \in Rows :
              df.rows[i].quantity =
                  IF RawQuantity(i) = NaN THEN GroupMedian(i) ELSE RawQuantity(i)
    /\ Cleaned =>
          \A i \in Rows :
              /\ RawQuantity(i) # NaN => df.rows[i].quantity = RawQuantity(i)
              /\ \A j \in Defined(i) :
                    Defined(i) = {j} =>
                        /\ df.rows[i].quantity = RawQuantity(j)
                        /\ 2 * df.rows[i].revenue
                             = RawQuantity(j) * Num(prices[ProductOf(i)])
    /\ pc \in { "totalled", "monthly", "ranked", "chart_saved", "done" } =>
          total_revenue = RevenueOver(DOMAIN df.rows)

\* the scenario (A, 2), (A, absent), (B, 4), (B, absent) with the quantities
\* the model draws: (A, 1), (A, absent), (B, 4), (B, absent)
C4_Witness ==
    /\ pc = "done"
    /\ Len(df_raw.rows) = 4
    /\ ProductOf(1) = ProductOf(2) /\ ProductOf(3) = ProductOf(4)
    /\ ProductOf(1) # ProductOf(3)
    /\ << RawQuantity(1), RawQuantity(2), RawQuantity(3), RawQuantity(4) >>
         = << Num(1), NaN, Num(4), NaN >>
    /\ [ i \in 1..4 |-> df.rows[i].quantity ] = << Num(1), Num(1), Num(4), Num(4) >>
    /\ total_revenue = Num(2 * prices[ProductOf(1)] + 8 * prices[ProductOf(3)])

\* C5 as stated: after cleaning the record set is only read; its columns and
\* values stay as they were when cleaning completed.
C5_ReadOnlyAfterCleaning == [][ Cleaned => df' = df ]_vars

\* C5 as the code has it: the monthly aggregation adds a month column to the
\* record set; the columns the cleaner left, their types and every value in
\* them stay as they were, and no other column appears.
C5_OnlyMonthAdded ==
    [][ Cleaned =>
          /\ Len(df'.rows) = Len(df.rows)
          /\ Range(df'.columns) \subseteq Range(df.columns) \cup { "month" }
          /\ \A c \in Range(df.columns) :
                /\ c \in Range(df'.columns)
                /\ df'.dtypes[c] = df.dtypes[c]
                /\ Column(df', c) = Column(df, c) ]_vars

C5_Witness ==
    /\ pc = "done"
    /\ df.columns = << "date", "product", "quantity", "unit_price", "revenue", "month" >>

\* C6: the frame read back from the file has the rows of the generated frame,
\* in the same order, with the same date, product, quantity and unit_price;
\* an absent quantity is absent, a defined one has its value.
C6_RoundTrip ==
    pc = "loaded" =>
        /\ df.columns = df_raw.columns
        /\ Len(df.rows) = Len(df_raw.rows)
        /\ \A i \in Rows :
              /\ df.rows[i].date = df_raw.rows[i].date
              /\ df.rows[i].product = df_raw.rows[i].product
              /\ df.rows[i].quantity = df_raw.rows[i].quantity
              /\ df.rows[i].unit_price = df_raw.rows[i].unit_price

C6_Witness ==
    /\ pc = "loaded"
    /\ \E i, j, k \in Rows :
          /\ RawQuantity(i) = NaN
          /\ RawQuantity(j) # NaN
          /\ df_raw.rows[k].date.nanosecond # 0

\* C7: once sales.csv is written no later step changes it, whether the step
\* succeeds or fails; a failure of the rendering leaves the file and the
\* aggregates already computed as they were.
C7_DatasetFileKept ==
    [][ /\ csv_file.exists => csv_file' = csv_file
        /\ pc \in { "ranked", "chart_saved" } =>
              /\ total_revenue' = total_revenue
              /\ monthly_revenue' = monthly_revenue
              /\ top_products' = top_products ]_vars

C7_Witness ==
    /\ pc = "failed"
    /\ error.line = 167
    /\ csv_file = CsvContent(df_raw)
    /\ top_products # << >>

\* C8: the cleaner run again on a record set it has cleaned changes nothing.
C8_CleanerIdempotent ==
    pc = "cleaned" =>
        LET again == CleanStage(df)
        IN  /\ Len(again.rows) = Len(df.rows)
            /\ \A i \in DOMAIN df.rows :
                  /\ again.rows[i].quantity = df.rows[i].quantity
                  /\ again.rows[i].unit_price = df.rows[i].unit_price
                  /\ again.rows[i].revenue = df.rows[i].revenue
            /\ again = df

C8_Witness ==
    /\ pc = "cleaned"
    /\ \E i, j \in Rows :
          /\ RawQuantity(i) = NaN /\ MedianIsFractional(i)
          /\ ProductOf(j) # ProductOf(i)

\* C9: the monthly aggregation has exactly one entry per (year, month) a
\* record falls in, in calendar order; an entry's revenue is the sum over the
\* records of that month, the entries sum to the total revenue, and records
\* of a single month give one entry holding the total.
MonthOf(i) == << df.rows[i].date.year, df.rows[i].date.month >>

MonthsPresent == { MonthOf(i) : i \in DOMAIN df.rows }

EntryMonth(j) == << monthly_revenue[j].month.year, monthly_revenue[j].month.month >>

C9_MonthlyRevenue ==
    pc \in { "monthly", "ranked", "chart_saved", "done" } =>
        /\ Len(monthly_revenue) = Cardinality(MonthsPresent)
        /\ { EntryMonth(j) : j \in DOMAIN monthly_revenue } = MonthsPresent
        /\ \A j \in DOMAIN monthly_revenue :
              /\ monthly_revenue[j].revenue
                   = RevenueOver({ i \in DOMAIN df.rows : MonthOf(i) = EntryMonth(j) })
              /\ \A k \in DOMAIN monthly_revenue :
                    j < k => \/ EntryMonth(j)[1] < EntryMonth(k)[1]
                             \/ /\ EntryMonth(j)[1] = EntryMonth(k)[1]
                                /\ EntryMonth(j)[2] < EntryMonth(k)[2]
        /\ SumTo([ j \in DOMAIN monthly_revenue |-> monthly_revenue[j].revenue ],
                 Len(monthly_revenue)) = total_revenue
        /\ total_revenue = RevenueOver(DOMAIN df.rows)
        /\ Cardinality(MonthsPresent) = 1 =>
              /\ Len(monthly_revenue) = 1
              /\ monthly_revenue[1].revenue = total_revenue

C9_Witness ==
    /\ pc = "monthly"
    /\ Len(monthly_revenue) = 2
    /\ Len(df.rows) = 4
    /\ \A j \in DOMAIN monthly_revenue : monthly_revenue[j].revenue < total_revenue

\* C10: the ranking has min(5, number of distinct products) entries, each
\* with the summed revenue of its product, in non-increasing order of
\* revenue, and no product left out has more revenue than a ranked one.
ProductsPresent == { df.rows[i].product : i \in DOMAIN df.rows }

ProductRevenue(p) == RevenueOver({ i \in DOMAIN df.rows : df.rows[i].product = p })

Ranked == { top_products[j].product : j \in DOMAIN top_products }

C10_TopProducts ==
    pc \in { "ranked", "chart_saved", "done" } =>
        /\ Len(top_products)
             = IF Cardinality(ProductsPresent) < 5 THEN Cardinality(ProductsPresent)
               ELSE 5
        /\ Ranked \subseteq ProductsPresent
        /\ Cardinality(Ranked) = Len(top_products)
        /\ \A j \in DOMAIN top_products :
              /\ top_products[j].revenue = ProductRevenue(top_products[j].product)
              /\ j > 1 => top_products[j].revenue <= top_products[j - 1].revenue
              /\ \A p \in ProductsPresent \ Ranked :
                    ProductRevenue(p) <= top_products[j].revenue

C10_Witness ==
    /\ pc = "ranked"
    /\ Cardinality(ProductsPresent) = 6
    /\ Len(top_products) = 5
    /\ products[2] \in Ranked

====
